---- MODULE Spec2Model ----
(***************************************************************************)
(* Row reconciliation store of the patient data processor: the state of    *)
(* the PatientTable component (working copy, original snapshot, dirty set, *)
(* Saving / Deleting sub-states), its handlers, and the persistence        *)
(* boundary (the /api/patients endpoints) they talk to.                    *)
(*                                                                         *)
(* A row object of the working copy is mutated in place by updateData, so  *)
(* every array that still holds that object sees the edit.  The only such  *)
(* array that is read later is the tableData captured by an in-flight      *)
(* handleSaveChanges; saveReq.live says that the captured array still      *)
(* holds the row objects of the current working copy, and saveReq.frozen   *)
(* is its contents once the working copy got fresh row objects.            *)
(*                                                                         *)
(* The second half is the ingestion pipeline of the page: the upload       *)
(* component, the two decoders of fileParser (the PapaParse worker with    *)
(* its relay, and the ExcelJS decoder), the upload relay of the Home page  *)
(* and the refetch that follows a decode.  The rows of a file are counted, *)
(* not told apart; a file is its header and its number of data rows.       *)
(***************************************************************************)
EXTENDS Integers, Sequences, FiniteSets, TLC

VARIABLES
    store,         \* patients collection, in createdAt order
    tableData,     \* useState tableData: the working copy
    originalData,  \* useState originalData: the original snapshot
    dirtyRows,     \* useState dirtyRows: set of row indices
    isSaving,      \* useState isSaving
    isDeleting,    \* useState isDeleting
    saveReq,       \* the in-flight PUT /api/patients and the closure awaiting it
    delPhase,      \* where the running handleDeleteSelected is suspended
    delTargets,    \* identifiers selected by the last handleDeleteSelected
    delDone,       \* identifiers whose DELETE was answered ok to that handler
    delReqs,       \* in-flight DELETE /api/patients/[id] requests
    lastOp,        \* history: the handler step taken last, with its outcome
    steps          \* history: number of handler steps taken

VARIABLES
    columns,       \* Home useState columns
    isUploading,   \* Home useState isUploading
    fetches,       \* fetchPatients calls awaiting their GET /api/patients
    timers,        \* pending setTimeout callbacks of handleParseComplete
    uploads,       \* in-flight POST /api/patients/upload, by batch number
    dispatched,    \* history: the batches whose POST was sent, in that order
    inserted,      \* history: batches whose POST was answered ok
    uploadErrors,  \* history: batches whose POST failure was toasted
    file,          \* the file handed to handleFileUpload
    fileName,      \* FileUpload useState fileName is set
    workerRef,     \* FileUpload workerRef.current is set
    worker,        \* the PapaParse worker: its script's variables
    queue,         \* events of the worker not yet dispatched to the page
    xlsx,          \* where parseExcelFile is suspended
    posted,        \* history: the chunk messages the worker posted
    delivered,     \* history: the batches passed to onChunk
    calls,         \* history: the onComplete / onError calls
    retained,      \* history: most records a decoder held at one time
    wasReset       \* history: handleReset was called after the file was given

VARIABLES
    request,       \* history: the last request made of an endpoint directly
    response,      \* history: the answer it got
    written        \* history: the $set document of the last update applied

VARIABLES
    sheet,         \* history: the header row and data row last decoded
    decoded        \* history: what parseExcelFile made of them

VARIABLES
    decodes,       \* the decodes the upload component started, oldest first
    current,       \* the decode whose worker workerRef.current is, or 0
    fileUploading, \* FileUpload useState isUploading
    consumer       \* history: the decode of every batch passed to onDataChunk

ingestVars == <<columns, isUploading, fetches, timers, uploads, dispatched,
                inserted,
                uploadErrors, file, fileName, workerRef, worker, queue, xlsx,
                posted, delivered, calls, retained, wasReset>>

vars == <<store, tableData, originalData, dirtyRows, isSaving, isDeleting,
          saveReq, delPhase, delTargets, delDone, delReqs, lastOp, steps,
          ingestVars, request, response, sheet, decoded, decodes, current,
          fileUploading, consumer, written>>

tableVars == <<tableData, originalData, dirtyRows>>

\* What a step of the ingestion pipeline leaves alone in the table and in
\* the history of direct requests.
tableIdle == <<isSaving, isDeleting, delPhase, delTargets, delDone, delReqs,
               steps, request, response, sheet, decoded, decodes, current,
               fileUploading, consumer, written>>

\* Largest number of records in the collection (and so in a fetched table).
MaxRows == 2

\* Longest behaviour explored, in handler steps.
MaxSteps == 6

\* GET /api/patients returns at most `limit` records, 50 when not given.
PageLimit == 50

\* `const CHUNK_SIZE = 100` of parseExcelFile.
CHUNK_SIZE == 100

\* Most data rows of a delimited file, and most chunk callbacks PapaParse
\* makes for one.
MaxCsvRows == 3
MaxChunks == 2

\* A spreadsheet has up to MaxXlsxChunks * CHUNK_SIZE + MaxXlsxExtra data rows.
MaxXlsxChunks == 1
MaxXlsxExtra == 1

Ids == 1..MaxRows
NoId == 0
Fields == {"email", "name"}
Values == {"old", "new"}

\* The fields the page never shows as columns.
Reserved == {"_id", "createdAt", "updatedAt"}

\* The order in which the keys of a record are enumerated.
KeyOrder == <<"age", "email", "name">>

\* The header rows of the files given to the page.
Headers == {<<"email", "name">>, <<"age", "createdAt", "email">>}

\* The row counts of the files given to the page, by kind.
CsvRowCounts == 0..MaxCsvRows
XlsxRowCounts ==
    {k * CHUNK_SIZE + e : k \in 0..MaxXlsxChunks, e \in 0..MaxXlsxExtra}

NoFile == [kind |-> "none", header |-> <<>>, rows |-> 0]

\* A file with an _id column: it has one data row, and the _id cell of that
\* row holds 0 (a number to both decoders).
ZeroIdFiles ==
    [kind : {"csv", "xlsx"}, header : {<<"_id", "email", "name">>}, rows : {1}]

Files ==
    [kind : {"csv"}, header : Headers, rows : CsvRowCounts]
    \cup [kind : {"xlsx"}, header : Headers, rows : XlsxRowCounts]
    \cup ZeroIdFiles

\* No worker was created.
NoWorker == [alive |-> FALSE, phase |-> "idle", rowsLeft |-> 0,
             totalRows |-> 0, allFields |-> <<>>]

\* No terminal callback was called: the number of onComplete and of onError
\* calls, and the totalRows, the length of data and the Error message they
\* were called with.
NoCalls == [complete |-> 0, error |-> 0, totalRows |-> 0, data |-> 0,
            message |-> ""]

\* A request body with no entry.
NoBody == [i \in {} |-> [id |-> NoId, cells |-> [f \in Fields |-> "old"]]]

\* An identifier that is no ObjectId (not 24 hex digits), and the identifiers
\* a request can carry: those of the records, one that is well formed and
\* names no record, and a malformed one.
Malformed == 0 - 1
IdInputs == 1..(MaxRows + 1) \cup {Malformed}

\* Most entries in the body of a bulk update made directly.
MaxBody == 2

\* What can go wrong behind an endpoint: nothing, getPatientsCollection
\* rejects (no connection), or the collection operation rejects.
Faults == {"none", "connect", "op"}

\* validFirst says of a bulk body that an entry with the _id of a record of
\* the collection comes before an entry without _id.
NoRequest == [endpoint |-> "none", malformed |-> FALSE, missing |-> FALSE,
              mismatch |-> FALSE, fault |-> "none", validFirst |-> FALSE]

\* A timestamp of an update is followed by where its value comes from:
\* "client" (a value of the request body) or "server" (`new Date()` in the
\* handler).  The entries of a request body have a createdAt ("client") or
\* have none ("absent").
SentCreatedAt == {"absent", "client"}

\* No update was handed to the collection.
NoWritten == [f \in {} |-> ""]
NoResponse == [status |-> 0, error |-> ""]

\* Most files given to the upload component in a behaviour that follows
\* several decodes, and most batches in one of them.
MaxFiles == 2
MaxBatches == 2

\* Most columns of a worksheet row.
MaxCols == 3

\* A worksheet cell without value (ValueType.Null), and a cell holding text.
NullCell == [type |-> "Null", value |-> ""]
TextCell(text) == [type |-> "String", value |-> text]

\* The header text and the data text found in column c when the cell there
\* is not blank: different in every column.
HeaderText(c) == "h" \o ToString(c)
DataText(c) == "v" \o ToString(c)

\* The rows of a worksheet, MaxCols cells each.  A header cell is absent,
\* holds the empty string or holds its column's text; a data cell is absent
\* or holds its column's text.
HeaderRows ==
    {[c \in 1..MaxCols |->
         IF k[c] = "null" THEN NullCell
         ELSE IF k[c] = "empty" THEN TextCell("")
         ELSE TextCell(HeaderText(c))] :
       k \in [1..MaxCols -> {"null", "empty", "text"}]}
DataRows ==
    {[c \in 1..MaxCols |-> IF c \in filled THEN TextCell(DataText(c))
                                             ELSE NullCell] :
        filled \in SUBSET (1..MaxCols)}

NoSheet == [header |-> <<>>, row |-> <<>>]
NoDecoded ==
    [headers |-> <<>>, emitted |-> FALSE, rowData |-> <<>>, errors |-> <<>>]

\* No PUT in flight.  Otherwise body maps each sent row index to the record
\* sent, live says that the captured tableData still holds the row objects
\* of the working copy, and frozen is what it holds when it does not.
NoReq == [active |-> FALSE, body |-> NoBody, live |-> FALSE, frozen |-> <<>>]

Min(a, b) == IF a < b THEN a ELSE b

IdsOf(rows) == {rows[i].id : i \in DOMAIN rows}

\* JSON.parse(JSON.stringify(rows)): rebuilds every record from its own
\* properties; the result shares no object with its argument.
JsonCopy(rows) ==
    [i \in DOMAIN rows |->
        [id |-> rows[i].id,
         cells |-> [f \in DOMAIN rows[i].cells |-> rows[i].cells[f]]]]

RECURSIVE SeqWithout(_, _)
\* The sequence s without the records whose identifier is in ids, order kept.
SeqWithout(s, ids) ==
    IF s = <<>> THEN <<>>
    ELSE IF Head(s).id \in ids THEN SeqWithout(Tail(s), ids)
         ELSE <<Head(s)>> \o SeqWithout(Tail(s), ids)

\* GET /api/patients: the first page of the collection, sorted by createdAt.
FetchPage(coll) == SubSeq(coll, 1, Min(Len(coll), PageLimit))

\* The collection as the application finds it.
InitialStore ==
    [i \in 1..MaxRows |-> [id |-> i, cells |-> [f \in Fields |-> "old"]]]

Init ==
    /\ store = InitialStore
    /\ tableData = <<>>
    /\ originalData = <<>>
    /\ dirtyRows = {}
    /\ isSaving = FALSE
    /\ isDeleting = FALSE
    /\ saveReq = NoReq
    /\ delPhase = "idle"
    /\ delTargets = {}
    /\ delDone = {}
    /\ delReqs = {}
    /\ lastOp = "init"
    /\ steps = 0
    /\ columns = <<>>
    /\ isUploading = FALSE
    /\ fetches = {"mount"}
    /\ timers = 0
    /\ uploads = {}
    /\ dispatched = <<>>
    /\ inserted = {}
    /\ uploadErrors = {}
    /\ file = NoFile
    /\ fileName = FALSE
    /\ workerRef = FALSE
    /\ worker = NoWorker
    /\ queue = <<>>
    /\ xlsx = "idle"
    /\ posted = <<>>
    /\ delivered = <<>>
    /\ calls = NoCalls
    /\ retained = 0
    /\ wasReset = FALSE
    /\ request = NoRequest
    /\ response = NoResponse
    /\ written = NoWritten
    /\ sheet = NoSheet
    /\ decoded = NoDecoded
    /\ decodes = <<>>
    /\ current = 0
    /\ fileUploading = FALSE
    /\ consumer = <<>>

\* The working copy gets fresh row objects: an in-flight save that captured
\* the previous array keeps that array, which no edit reaches any more.
Detached(req) ==
    IF req.active /\ req.live
    THEN [req EXCEPT !.live = FALSE, !.frozen = tableData]
    ELSE req

\* The tableData array as the closure of a handleSaveChanges call sees it.
CapturedTable(req) == IF req.live THEN tableData ELSE req.frozen

\* The data prop as the page hands it over: a fetched page, or one in which
\* a record that was never persisted carries no identifier.
LoadInputs ==
    LET page == FetchPage(store)
    IN  {page} \cup {[page EXCEPT ![i].id = NoId] : i \in DOMAIN page}

\* A load that keeps the dirty set of the table it replaces.
Load_KeepsDirty(records) ==
    /\ tableData' = records
    /\ originalData' = JsonCopy(records)
    /\ dirtyRows' = dirtyRows \cap DOMAIN records
    /\ saveReq' = Detached(saveReq)
    /\ lastOp' = "load"
    /\ UNCHANGED <<store, isSaving, isDeleting, delPhase, delTargets, delDone,
                   delReqs>>

\* useEffect on [data]
Load(records) ==
    /\ tableData' = records
    /\ originalData' = JsonCopy(records)
    /\ dirtyRows' = {}
    /\ saveReq' = Detached(saveReq)
    /\ lastOp' = "load"
    /\ UNCHANGED <<store, isSaving, isDeleting, delPhase, delTargets, delDone,
                   delReqs>>

\* The cell renderer shows the rows, and so the editable cells, unless the
\* table is deleting (or its isLoading prop is set).
RowsShown == ~isDeleting

\* updateData that drops a row from the dirty set when the row is back at
\* its original values.
updateData_ComparesOriginal(rowIndex, columnId, value) ==
    IF rowIndex \in DOMAIN tableData
    THEN /\ tableData' = [tableData EXCEPT ![rowIndex].cells[columnId] = value]
         /\ dirtyRows' =
              IF /\ rowIndex \in DOMAIN originalData
                 /\ tableData'[rowIndex].cells = originalData[rowIndex].cells
              THEN dirtyRows \ {rowIndex}
              ELSE dirtyRows \cup {rowIndex}
         /\ UNCHANGED originalData
    ELSE UNCHANGED tableVars

\* updateData that marks the index dirty whether or not a row has it.
updateData_MarksAnyIndex(rowIndex, columnId, value) ==
    /\ tableData' =
         IF rowIndex \in DOMAIN tableData
         THEN [tableData EXCEPT ![rowIndex].cells[columnId] = value]
         ELSE tableData
    /\ dirtyRows' = dirtyRows \cup {rowIndex}
    /\ UNCHANGED originalData

\* updateData.  With an index that no row has, `newData[rowIndex]` is
\* undefined and the assignment to its property throws a TypeError before
\* any state setter is reached.
updateData(rowIndex, columnId, value) ==
    IF rowIndex \in DOMAIN tableData
    THEN /\ tableData' = [tableData EXCEPT ![rowIndex].cells[columnId] = value]
         /\ dirtyRows' = dirtyRows \cup {rowIndex}
         /\ UNCHANGED originalData
    ELSE UNCHANGED tableVars

\* The blur handler with its comparison left out: every blur calls updateData.
onBlur_AlwaysUpdates(rowIndex, columnId, newValue) ==
    updateData(rowIndex, columnId, newValue)

\* onBlur of an editable cell: the text of the cell is compared with the text
\* the cell was rendered from (the current working value), and updateData is
\* called only when the two differ.
onBlur(rowIndex, columnId, newValue) ==
    IF newValue # tableData[rowIndex].cells[columnId]
    THEN updateData(rowIndex, columnId, newValue)
    ELSE UNCHANGED tableVars

\* The user leaves an editable cell of a shown row with the text `value`.
Edit(rowIndex, columnId, value) ==
    /\ RowsShown
    /\ rowIndex \in DOMAIN tableData
    /\ onBlur(rowIndex, columnId, value)
    /\ lastOp' = IF value # tableData[rowIndex].cells[columnId]
                  THEN "edit" ELSE "editSame"
    /\ UNCHANGED <<store, isSaving, isDeleting, saveReq, delPhase, delTargets,
                   delDone, delReqs>>

\* table.options.meta.updateData called with an index outside the working
\* copy (0 and Len + 1 stand for any such index).
updateDataOutOfRange(rowIndex, columnId, value) ==
    /\ rowIndex \notin DOMAIN tableData
    /\ updateData(rowIndex, columnId, value)
    /\ lastOp' = "editInvalidIndex"
    /\ UNCHANGED <<store, isSaving, isDeleting, saveReq, delPhase, delTargets,
                   delDone, delReqs>>

\* A check of _id that never fires.
MissingId_Never(row) == FALSE

\* `!row._id` in handleSaveChanges / handleDeleteSelected
MissingId(row) == row.id = NoId

\* A Save Changes button that stays enabled while a save is in flight.
SaveCallable_Always == TRUE

\* The Save Changes button is disabled while a save is in flight.  It is
\* disabled with an empty dirty set too; handleSaveChanges makes the same
\* check itself (NothingToSave), and the call is admitted here so that this
\* branch of the handler is part of the behaviours.
SaveCallable == ~isSaving

\* handleSaveChanges without its empty check.
NothingToSave_Never == FALSE

\* `modifiedRows.length === 0`
NothingToSave == dirtyRows = {}

\* A request body with an entry for every row of the table.
ModifiedRows_AllRows == [i \in DOMAIN tableData |-> tableData[i]]

\* `modifiedRows`: Array.from(dirtyRows).map(index => tableData[index]), the
\* body of the PUT, kept here by row index.
ModifiedRows == [i \in dirtyRows |-> tableData[i]]

\* handleSaveChanges up to its await
handleSaveChanges ==
    /\ SaveCallable
    /\ IF \E i \in dirtyRows : MissingId(tableData[i])
       THEN \* throw 'Cannot update row without _id'; catch; finally
            /\ lastOp' = "saveMissingId"
            /\ isSaving' = FALSE
            /\ UNCHANGED saveReq
       ELSE IF NothingToSave
       THEN \* 'No changes to save'; finally
            /\ lastOp' = "saveNoChanges"
            /\ isSaving' = FALSE
            /\ UNCHANGED saveReq
       ELSE /\ saveReq' = [active |-> TRUE,
                           body |-> ModifiedRows,
                           live |-> TRUE, frozen |-> <<>>]
            /\ isSaving' = TRUE
            /\ lastOp' = "saveSent"
    /\ UNCHANGED <<store, tableVars, isDeleting, delPhase, delTargets, delDone,
                   delReqs>>

\* PUT /api/patients: one updateOne per entry, matched by _id, no upsert.
BulkUpdate(coll, body) ==
    [k \in DOMAIN coll |->
        IF \E i \in DOMAIN body : body[i].id = coll[k].id
        THEN LET i == CHOOSE j \in DOMAIN body : body[j].id = coll[k].id
             IN  [coll[k] EXCEPT !.cells = body[i].cells]
        ELSE coll[k]]

\* handleSaveChanges after its await, without the `!response.ok` check.
SaveContinuation_Unchecked(ok) ==
    /\ originalData' = JsonCopy(CapturedTable(saveReq))
    /\ dirtyRows' = {}
    /\ UNCHANGED tableData
    /\ lastOp' = IF ok THEN "saveOk" ELSE "saveFailed"

\* handleSaveChanges after its await: ok is response.ok (FALSE also when the
\* fetch was rejected).
SaveContinuation(ok) ==
    IF ok
    THEN /\ originalData' = JsonCopy(CapturedTable(saveReq))
         /\ dirtyRows' = {}
         /\ UNCHANGED tableData
         /\ lastOp' = "saveOk"
    ELSE \* throw; catch
         /\ lastOp' = "saveFailed"
         /\ UNCHANGED tableVars

\* The PUT is answered and the rest of handleSaveChanges runs.
SaveResponse(ok) ==
    /\ saveReq.active
    /\ store' = IF ok THEN BulkUpdate(store, saveReq.body) ELSE store
    /\ SaveContinuation(ok)
    /\ saveReq' = NoReq
    /\ isSaving' = FALSE
    /\ UNCHANGED <<isDeleting, delPhase, delTargets, delDone, delReqs>>

\* Revert All is rendered when rows are dirty, disabled while saving.
RevertCallable == dirtyRows # {} /\ ~isSaving

\* handleRevertChanges that clears the dirty set and keeps the working copy.
handleRevertChanges_OnlyClears ==
    /\ RevertCallable
    /\ dirtyRows' = {}
    /\ saveReq' = saveReq
    /\ lastOp' = "revert"
    /\ UNCHANGED <<store, tableData, originalData, isSaving, isDeleting,
                   delPhase, delTargets, delDone, delReqs>>

\* handleRevertChanges
handleRevertChanges ==
    /\ RevertCallable
    /\ tableData' = JsonCopy(originalData)
    /\ dirtyRows' = {}
    /\ saveReq' = Detached(saveReq)
    /\ lastOp' = "revert"
    /\ UNCHANGED <<store, originalData, isSaving, isDeleting, delPhase,
                   delTargets, delDone, delReqs>>

\* Delete Selected is rendered when rows are selected, disabled while deleting.
DeleteCallable == ~isDeleting

\* The rows of the selection, by identifier.
SelectedIds(sel) == {tableData[i].id : i \in sel} \ {NoId}

\* selectedRows.map(...) sends the DELETE of every selected row that comes
\* before the first row without _id, and of all of them when there is none.
Dispatched(sel) ==
    LET bad == {i \in sel : MissingId(tableData[i])}
    IN  {tableData[i].id : i \in {j \in sel : \A b \in bad : j < b}}

\* Requests whose handler no longer awaits them: their answers are dropped.
Orphaned(reqs) == {[r EXCEPT !.owned = FALSE] : r \in reqs}

\* handleDeleteSelected that takes the selected rows out of the table before
\* it looks at their identifiers.
handleDeleteSelected_RemovesFirst(sel) ==
    /\ DeleteCallable
    /\ sel # {}
    /\ sel \subseteq DOMAIN tableData
    /\ delTargets' = SelectedIds(sel)
    /\ delDone' = {}
    /\ tableData' = SeqWithout(tableData, {tableData[i].id : i \in sel})
    /\ originalData' = JsonCopy(tableData')
    /\ dirtyRows' = {}
    /\ IF \E i \in sel : MissingId(tableData[i])
       THEN /\ delReqs' = delReqs \cup
                    {[id |-> d, owned |-> FALSE] : d \in Dispatched(sel)}
            /\ lastOp' = "deleteMissingId"
            /\ isDeleting' = FALSE
            /\ UNCHANGED delPhase
       ELSE /\ delReqs' = delReqs \cup
                    {[id |-> d, owned |-> TRUE] : d \in Dispatched(sel)}
            /\ isDeleting' = TRUE
            /\ delPhase' = "deleting"
            /\ lastOp' = "deleteSent"
    /\ UNCHANGED <<store, isSaving, saveReq>>

\* handleDeleteSelected up to `await Promise.all(deletePromises)`, for the
\* checked rows sel (the confirm dialog answered yes).
handleDeleteSelected(sel) ==
    /\ DeleteCallable
    /\ sel # {}
    /\ sel \subseteq DOMAIN tableData
    /\ delTargets' = SelectedIds(sel)
    /\ delDone' = {}
    /\ IF \E i \in sel : MissingId(tableData[i])
       THEN \* throw 'Cannot delete row without _id' inside map; catch; finally
            /\ delReqs' = delReqs \cup
                    {[id |-> d, owned |-> FALSE] : d \in Dispatched(sel)}
            /\ lastOp' = "deleteMissingId"
            /\ isDeleting' = FALSE
            /\ UNCHANGED delPhase
       ELSE /\ delReqs' = delReqs \cup
                    {[id |-> d, owned |-> TRUE] : d \in Dispatched(sel)}
            /\ isDeleting' = TRUE
            /\ delPhase' = "deleting"
            /\ lastOp' = "deleteSent"
    /\ UNCHANGED <<store, tableVars, isSaving, saveReq>>

\* A DELETE endpoint that answers ok and leaves the record in place.
DeleteOne_KeepsRecord(coll, id, fault) ==
    IF ~fault /\ id \in IdsOf(coll)
    THEN [ok |-> TRUE, coll |-> coll]
    ELSE [ok |-> FALSE, coll |-> coll]

\* DELETE /api/patients/[id]: 200 when a record was deleted, else 404; a
\* fault is any answer that is not ok for another reason (or none at all).
DeleteOne(coll, id, fault) ==
    IF ~fault /\ id \in IdsOf(coll)
    THEN [ok |-> TRUE, coll |-> SeqWithout(coll, {id})]
    ELSE [ok |-> FALSE, coll |-> coll]

\* One DELETE is answered.  Promise.all rejects on the first answer that is
\* not ok and resolves when every answer is ok.
DeleteResponse(req, fault) ==
    /\ req \in delReqs
    /\ LET res == DeleteOne(store, req.id, fault)
       IN  /\ store' = res.coll
           /\ IF ~req.owned
              THEN /\ delReqs' = delReqs \ {req}
                   /\ lastOp' = "deleteIgnored"
                   /\ UNCHANGED <<isDeleting, delPhase, delDone>>
              ELSE IF res.ok
              THEN /\ delReqs' = delReqs \ {req}
                   /\ delDone' = delDone \cup {req.id}
                   /\ delPhase' = IF delDone' = delTargets
                                  THEN "refetch" ELSE "deleting"
                   /\ lastOp' = "deleteRowOk"
                   /\ UNCHANGED isDeleting
              ELSE \* `Failed to delete record with ID ...`; catch; finally
                   /\ delReqs' = Orphaned(delReqs \ {req})
                   /\ delPhase' = "idle"
                   /\ isDeleting' = FALSE
                   /\ lastOp' = "deleteFailed"
                   /\ UNCHANGED delDone
    /\ UNCHANGED <<tableVars, isSaving, saveReq, delTargets>>

RefetchOutcomes == {"ok", "httpError", "networkError"}

\* handleDeleteSelected after Promise.all: the GET /api/patients is answered.
\* An answer without a data property empties the table; a rejected fetch
\* goes to catch.
DeleteRefresh(outcome) ==
    /\ delPhase = "refetch"
    /\ IF outcome = "networkError"
       THEN /\ lastOp' = "deleteRefetchFailed"
            /\ UNCHANGED <<tableVars, saveReq>>
       ELSE LET data == IF outcome = "ok" THEN FetchPage(store) ELSE <<>>
            IN  /\ tableData' = data
                /\ originalData' = JsonCopy(data)
                /\ dirtyRows' = {}
                /\ saveReq' = Detached(saveReq)
                /\ lastOp' = "deleteOk"
    /\ delPhase' = "idle"
    /\ isDeleting' = FALSE
    /\ UNCHANGED <<store, isSaving, delTargets, delDone, delReqs>>

(***************************************************************************)
(* The persistence endpoints, requested directly.                          *)
(***************************************************************************)

\* toObjectId: `new ObjectId(id)` throws for a string that is no ObjectId.
toObjectId(id) == [throws |-> id = Malformed, oid |-> id]

Answer(status, error, coll) ==
    [status |-> status, error |-> error, coll |-> coll]

\* preparePatient on the timestamps of a patient: createdAt is kept when the
\* patient has one and is `new Date()` otherwise; updatedAt is `new Date()`.
preparePatient(patient) ==
    [patient EXCEPT
        !.createdAt = IF @ = "absent" THEN "server" ELSE @,
        !.updatedAt = "server"]

\* `const { _id, ...updateFields } = preparePatient(patient)`: the fields of
\* the $set.
UpdateFields(patient) ==
    LET prepared == preparePatient(patient)
    IN  [f \in DOMAIN prepared \ {"id"} |-> prepared[f]]

\* A patient of a request body, by its identifier and its timestamps (its
\* other fields are the cells of the request).  The by-id update sets
\* preparePatient(patient) as a whole, the bulk update sets updateFields.
Patient(id, sent) ==
    [id |-> id, createdAt |-> sent, updatedAt |-> "absent"]

\* The checks of /api/patients/[id] that come before the method is looked
\* at: the id of the URL, then getPatientsCollection inside the outer try.
\* NoId stands for an id that is no string or is empty.
ByIdPrologue(coll, id, fault) ==
    IF id = NoId THEN Answer(400, "Invalid patient ID", coll)
    ELSE IF fault = "connect" THEN Answer(500, "Internal server error", coll)
    ELSE Answer(0, "", coll)

\* GET /api/patients/[id]: the inner catch answers 400 for whatever was
\* thrown, by toObjectId or by findOne.
GetById(coll, id, fault) ==
    LET pre == ByIdPrologue(coll, id, fault)
    IN  IF pre.status # 0 THEN pre
        ELSE IF toObjectId(id).throws \/ fault = "op"
        THEN Answer(400, "Invalid patient ID format", coll)
        ELSE IF id \notin IdsOf(coll)
        THEN Answer(404, "Patient not found", coll)
        ELSE Answer(200, "", coll)

\* PUT /api/patients/[id] with a body whose _id is bodyId (NoId: none) and
\* whose other fields are cells.
PutById(coll, id, bodyId, cells, fault) ==
    LET pre == ByIdPrologue(coll, id, fault)
    IN  IF pre.status # 0 THEN pre
        ELSE IF bodyId # NoId /\ bodyId # id
        THEN Answer(400, "Patient ID in the URL does not match the ID in the request body", coll)
        ELSE IF toObjectId(id).throws \/ fault = "op"
        THEN Answer(400, "Invalid patient ID format", coll)
        ELSE IF id \notin IdsOf(coll)
        THEN Answer(404, "Patient not found", coll)
        ELSE Answer(200, "",
                    [k \in DOMAIN coll |->
                        IF coll[k].id = id
                        THEN [coll[k] EXCEPT !.cells = cells]
                        ELSE coll[k]])

\* DELETE /api/patients/[id]
DeleteById(coll, id, fault) ==
    LET pre == ByIdPrologue(coll, id, fault)
    IN  IF pre.status # 0 THEN pre
        ELSE IF toObjectId(id).throws \/ fault = "op"
        THEN Answer(400, "Invalid patient ID format", coll)
        ELSE IF id \notin IdsOf(coll)
        THEN Answer(404, "Patient not found", coll)
        ELSE Answer(200, "", SeqWithout(coll, {id}))

\* A bulk update that passes over the entries without _id and applies the
\* others.
PutBulk_SkipsMissing(coll, body, fault) ==
    IF fault # "none" THEN Answer(500, "Internal server error", coll)
    ELSE IF \E i \in DOMAIN body : toObjectId(body[i].id).throws
    THEN Answer(500, "Internal server error", coll)
    ELSE Answer(200, "", BulkUpdate(coll, body))

\* PUT /api/patients with an array body: whatever is thrown while the
\* operations are built (an entry without _id, toObjectId) or by bulkWrite is
\* caught by the one catch of the handler.
PutBulk(coll, body, fault) ==
    IF fault = "connect" THEN Answer(500, "Internal server error", coll)
    ELSE IF \E i \in DOMAIN body :
               body[i].id = NoId \/ toObjectId(body[i].id).throws
    THEN Answer(500, "Internal server error", coll)
    ELSE IF fault = "op" THEN Answer(500, "Internal server error", coll)
    ELSE Answer(200, "", BulkUpdate(coll, body))

\* The field values of the updates made directly, and the bodies of the bulk
\* updates: up to MaxBody entries, with any identifier or none, that set
\* every field to "new".
Cells == {[f \in Fields |-> v] : v \in Values}
Bodies ==
    UNION {[1..n -> [id : IdInputs \cup {NoId},
                     cells : {[f \in Fields |-> "new"]}]] :
              n \in 1..MaxBody}

\* A request was answered with res; set is the $set document of the update
\* it handed to the collection, if it got that far.
Answered(req, res, set) ==
    /\ request' = req
    /\ response' = [status |-> res.status, error |-> res.error]
    /\ store' = res.coll
    /\ written' = IF res.status \in {200, 404} THEN set ELSE NoWritten
    /\ lastOp' = "api"
    /\ UNCHANGED <<tableVars, saveReq, isSaving, isDeleting, delPhase,
                   delTargets, delDone, delReqs, steps, ingestVars, sheet,
                   decoded, decodes, current, fileUploading, consumer>>

\* What is kept of a request made of a by-id endpoint.
ByIdRequest(endpoint, id, mismatch, fault) ==
    [endpoint |-> endpoint, malformed |-> id = Malformed,
     missing |-> id = NoId, mismatch |-> mismatch, fault |-> fault,
     validFirst |-> FALSE]

ApiGet(id, fault) ==
    Answered(ByIdRequest("GET [id]", id, FALSE, fault),
             GetById(store, id, fault), NoWritten)

ApiPut(id, bodyId, cells, sent, fault) ==
    Answered(ByIdRequest("PUT [id]", id, bodyId # NoId /\ bodyId # id, fault),
             PutById(store, id, bodyId, cells, fault),
             preparePatient(Patient(id, sent)))

ApiDelete(id, fault) ==
    Answered(ByIdRequest("DELETE [id]", id, FALSE, fault),
             DeleteById(store, id, fault), NoWritten)

ApiPutBulk(body, sent, fault) ==
    Answered([endpoint |-> "PUT bulk",
              malformed |-> \E i \in DOMAIN body : body[i].id = Malformed,
              missing |-> \E i \in DOMAIN body : body[i].id = NoId,
              mismatch |-> FALSE, fault |-> fault,
              validFirst |-> \E i, j \in DOMAIN body :
                                /\ i < j
                                /\ body[i].id \in IdsOf(store)
                                /\ body[j].id = NoId],
             PutBulk(store, body, fault),
             UpdateFields(Patient(body[1].id, sent)))

(***************************************************************************)
(* The row mapping of the spreadsheet decoder.                             *)
(***************************************************************************)

\* row.eachCell(callback) of ExcelJS, without includeEmpty: the callback is
\* called with the cells that have a value, by ascending column number; here
\* the column numbers of those cells.
eachCell(row) == {c \in DOMAIN row : row[c].type # "Null"}

\* The k-th column number of cols, ascending.
Kth(cols, k) == CHOOSE c \in cols : Cardinality({d \in cols : d < c}) = k - 1

\* `cell.value?.toString() || `Column${colNumber}``
HeaderName(cell, colNumber) ==
    IF cell.value # "" THEN cell.value ELSE "Column" \o ToString(colNumber)

\* `headers`: one name pushed for every cell eachCell visits in row 1.
SheetHeaders(header) ==
    LET cols == eachCell(header)
    IN  [k \in 1..Cardinality(cols) |->
            HeaderName(header[Kth(cols, k)], Kth(cols, k))]

\* The row mapping without its check of the column number: a cell past
\* headers.length is stored under headers[colNumber - 1], which is undefined.
RowData_KeepsExtra(headers, row) ==
    LET cols == eachCell(row)
        key(c) == IF c <= Len(headers) THEN headers[c] ELSE "undefined"
    IN  [name \in {key(c) : c \in cols} |->
            LET last == CHOOSE c \in cols :
                           /\ key(c) = name
                           /\ \A d \in cols : key(d) = name => d <= c
            IN  row[last].value]

\* `rowData`: for every cell eachCell visits in a data row, in column order,
\* `if (colNumber <= headers.length) rowData[headers[colNumber - 1]] = value`.
RowData(headers, row) ==
    LET cols == {c \in eachCell(row) : c <= Len(headers)}
    IN  [name \in {headers[c] : c \in cols} |->
            LET last == CHOOSE c \in cols :
                           /\ headers[c] = name
                           /\ \A d \in cols : headers[d] = name => d <= c
            IN  row[last].value]

\* One worksheet is decoded: its header row and one data row.  eachRow,
\* without includeEmpty, passes over a row that has no cell with a value.
\* The batch the record is handed over in carries `errors: []`.
ReadSheet(header, row) ==
    /\ sheet' = [header |-> header, row |-> row]
    /\ decoded' = [headers |-> SheetHeaders(header),
                   emitted |-> eachCell(row) # {},
                   rowData |-> RowData(SheetHeaders(header), row),
                   errors |-> <<>>]
    /\ lastOp' = "sheetRow"
    /\ UNCHANGED <<store, tableVars, saveReq, isSaving, isDeleting, delPhase,
                   delTargets, delDone, delReqs, steps, ingestVars, request,
                   response, decodes, current, fileUploading, consumer,
                   written>>

(***************************************************************************)
(* The upload component given several files.  A decode is the kind of its  *)
(* file, the number of batches it has yet to hand over, and whether it     *)
(* runs, has ended (completed or failed) or was terminated.                *)
(***************************************************************************)

\* What the page and the table keep while the upload component works.
UploadOnly ==
    UNCHANGED <<store, tableVars, saveReq, isSaving, isDeleting, delPhase,
                delTargets, delDone, delReqs, steps, request, response, sheet,
                decoded, columns, isUploading, fetches, timers, uploads, dispatched,
                inserted, uploadErrors, file, worker, queue, xlsx, posted,
                delivered, calls, retained, wasReset, written>>

Running(d) == decodes[d].state = "running"

\* handleFileUpload for a file of the given kind that holds so many batches:
\* setIsUploading(true), then parseCSVFile, whose worker replaces
\* workerRef.current, or parseExcelFile, which leaves workerRef alone.
StartDecode(kind, batches) ==
    /\ Len(decodes) < MaxFiles
    /\ decodes' = Append(decodes, [kind |-> kind, left |-> batches,
                                   state |-> "running"])
    /\ current' = IF kind = "csv" THEN Len(decodes) + 1 ELSE current
    /\ workerRef' = (current' # 0)
    /\ fileName' = TRUE
    /\ fileUploading' = TRUE
    /\ UNCHANGED consumer
    /\ UploadOnly

\* onChange of the file input, which is disabled (as is the Select File
\* button) while isUploading is set.
handleFileChange(kind, batches) ==
    /\ ~fileUploading
    /\ StartDecode(kind, batches)
    /\ lastOp' = "fileSelected"

\* onDrop of the drop zone
handleDrop(kind, batches) ==
    /\ StartDecode(kind, batches)
    /\ lastOp' = "fileDropped"

\* The worker of a delimited file has a batch relayed to handleChunk.
DecodeChunk(d) ==
    /\ d \in DOMAIN decodes
    /\ Running(d)
    /\ decodes[d].kind = "csv"
    /\ decodes[d].left > 0
    /\ decodes' = [decodes EXCEPT ![d].left = @ - 1]
    /\ consumer' = Append(consumer, d)
    /\ lastOp' = "batch"
    /\ UNCHANGED <<current, workerRef, fileName, fileUploading>>
    /\ UploadOnly

\* A decode ends.  Completion comes after the last batch; a spreadsheet hands
\* over all its batches and completes in one handler (reader.onload).  A
\* failure can come at any time before.  handleComplete and handleError both
\* setIsUploading(false).
DecodeEnds(d, ok) ==
    /\ d \in DOMAIN decodes
    /\ Running(d)
    /\ ok /\ decodes[d].kind = "csv" => decodes[d].left = 0
    /\ decodes' = [decodes EXCEPT ![d].left = 0, ![d].state = "ended"]
    /\ consumer' = IF ok
                   THEN consumer \o [i \in 1..decodes[d].left |-> d]
                   ELSE consumer
    /\ fileUploading' = FALSE
    /\ lastOp' = IF ok THEN "decodeComplete" ELSE "decodeError"
    /\ UNCHANGED <<current, workerRef, fileName>>
    /\ UploadOnly

\* handleReset of the upload component with decodes running: the worker in
\* workerRef.current, if any, is terminated.
ResetDecodes ==
    /\ fileName
    /\ decodes' = IF current # 0 /\ Running(current)
                  THEN [decodes EXCEPT ![current].state = "terminated"]
                  ELSE decodes
    /\ current' = 0
    /\ workerRef' = FALSE
    /\ fileName' = FALSE
    /\ fileUploading' = FALSE
    /\ lastOp' = "resetDecodes"
    /\ UNCHANGED consumer
    /\ UploadOnly

(***************************************************************************)
(* The ingestion pipeline.                                                 *)
(***************************************************************************)

RECURSIVE SetAdd(_, _, _)
\* names.forEach(name => { if (!skip.includes(name)) set.add(name) }) on a
\* Set that enumerates as the sequence set: insertion order, no duplicates.
SetAdd(set, names, skip) ==
    IF names = <<>> THEN set
    ELSE LET name == Head(names)
             seen == \E i \in DOMAIN set : set[i] = name
         IN  IF name \in skip \/ seen
             THEN SetAdd(set, Tail(names), skip)
             ELSE SetAdd(Append(set, name), Tail(names), skip)

RECURSIVE SumRows(_)
\* The number of records of a sequence of batches.
SumRows(batches) ==
    IF batches = <<>> THEN 0 ELSE Head(batches).n + SumRows(Tail(batches))

\* Object.keys of a record, without the reserved ones.
KeysOf(rec) == SelectSeq(KeyOrder, LAMBDA f : f \in DOMAIN rec.cells)

RECURSIVE AllColumns(_, _)
\* fetchPatients: the columns of the fetched records.
AllColumns(acc, page) ==
    IF page = <<>> THEN acc
    ELSE LET more == SetAdd(acc, KeysOf(Head(page)), Reserved)
         IN  IF more = acc
             THEN AllColumns(acc, Tail(page))
             ELSE AllColumns(more, Tail(page))

\* The largest identifier of a collection: the driver gives out new ones.
LastId(coll) ==
    IF coll = <<>> THEN NoId
    ELSE CHOOSE m \in IdsOf(coll) : \A j \in IdsOf(coll) : j <= m

\* POST /api/patients/upload: insertMany of n records with the given fields.
\* preparePatient converts an _id that is a non-empty string and leaves any
\* other as it is, and the driver gives a new _id only to a document that
\* has none: the 0 of a file with an _id column stays the _id of its record.
InsertMany(coll, n, fields) ==
    LET last == LastId(coll)
        names == {fields[i] : i \in DOMAIN fields} \ Reserved
        given == \E i \in DOMAIN fields : fields[i] = "_id"
    IN  coll \o [k \in 1..n |->
                   [id |-> IF given THEN NoId ELSE last + k,
                    cells |-> [f \in names |-> "new"]]]

\* A column merge that keeps only the fields of the batch at hand.
MergeColumns_Replaces(prevColumns, fields) == SetAdd(<<>>, fields, Reserved)

\* The setColumns updater of handleDataChunk.
MergeColumns(prevColumns, fields) == SetAdd(prevColumns, fields, Reserved)

\* A relay that stops sending once an upload has failed.
sendChunkToApi_StopsOnFailure(ups, b) ==
    IF uploadErrors # {} THEN ups ELSE ups \cup {b}

\* sendChunkToApi up to its await: the POST of batch b is in flight.
sendChunkToApi(ups, b) == ups \cup {b}

\* The part of the page a batch acts on.
Page == [columns |-> columns, isUploading |-> isUploading,
         uploads |-> uploads, dispatched |-> dispatched,
         delivered |-> delivered]

\* A handler that sends every batch, without looking at its length.
handleDataChunk_SendsEmpty(pg, chunk) ==
    [pg EXCEPT
       !.isUploading = TRUE,
       !.columns = IF chunk.fields # <<>>
                   THEN MergeColumns(@, chunk.fields) ELSE @,
       !.uploads = sendChunkToApi(@, Len(pg.delivered)),
       !.dispatched = Append(@, Len(pg.delivered))]

\* handleDataChunk, for the batch delivered last.  sendChunkToApi runs up to
\* its `await fetch(...)` inside the call, so the POST is sent before the
\* handler returns.
handleDataChunk(pg, chunk) ==
    [pg EXCEPT
       !.isUploading = TRUE,
       !.columns = IF chunk.fields # <<>>
                   THEN MergeColumns(@, chunk.fields) ELSE @,
       !.uploads = IF chunk.n > 0
                   THEN sendChunkToApi(@, Len(pg.delivered)) ELSE @,
       !.dispatched = IF chunk.n > 0
                      THEN Append(@, Len(pg.delivered)) ELSE @]

\* handleChunk of handleFileUpload: the onChunk callback of both decoders.
handleChunk(pg, chunk) ==
    handleDataChunk([pg EXCEPT !.delivered = Append(@, chunk)], chunk)

RECURSIVE DeliverAll(_, _)
\* onChunk called for each batch in turn.
DeliverAll(pg, chunks) ==
    IF chunks = <<>> THEN pg
    ELSE DeliverAll(handleChunk(pg, Head(chunks)), Tail(chunks))

\* The page after the batches were handed over.
SetPage(pg) ==
    /\ columns' = pg.columns
    /\ isUploading' = pg.isUploading
    /\ uploads' = pg.uploads
    /\ dispatched' = pg.dispatched
    /\ delivered' = pg.delivered

\* handleFileChange / handleDrop with handleFileUpload, for a file the page
\* accepts.  One file is given in a behaviour.
handleFileUpload(f) ==
    /\ file = NoFile
    /\ file' = f
    /\ fileName' = TRUE
    /\ IF f.kind = "csv"
       THEN \* parseCSVFile: createCSVParserWorker, postMessage, return worker
            /\ worker' = [alive |-> TRUE, phase |-> "parsing",
                          rowsLeft |-> f.rows, totalRows |-> 0,
                          allFields |-> <<>>]
            /\ workerRef' = TRUE
            /\ UNCHANGED xlsx
       ELSE \* parseExcelFile up to `await import('exceljs')`
            /\ xlsx' = "importing"
            /\ UNCHANGED <<worker, workerRef>>
    /\ lastOp' = "fileGiven"
    /\ UNCHANGED <<store, tableVars, saveReq, tableIdle, columns, isUploading,
                   fetches, timers, uploads, dispatched, inserted, uploadErrors, queue,
                   posted, delivered, calls, retained, wasReset>>

Message(type, n, fields, totalRows, error) ==
    [type |-> type, n |-> n, fields |-> fields, totalRows |-> totalRows,
     error |-> error]

\* The chunk callback of the worker: PapaParse hands over the next n rows
\* of the file, with the header as meta.fields.
WorkerChunk(n) ==
    /\ worker.alive
    /\ worker.phase = "parsing"
    /\ Len(posted) < MaxChunks
    /\ n <= worker.rowsLeft
    /\ Len(posted) = MaxChunks - 1 => n = worker.rowsLeft
    /\ LET allFields == SetAdd(worker.allFields, file.header, {})
           msg == Message("chunk", n, allFields, 0, "")
       IN  /\ worker' = [worker EXCEPT !.rowsLeft = @ - n,
                                       !.totalRows = @ + n,
                                       !.allFields = allFields]
           /\ queue' = Append(queue, msg)
           /\ posted' = Append(posted, msg)
    /\ retained' = IF n > retained THEN n ELSE retained
    /\ lastOp' = "workerChunk"
    /\ UNCHANGED <<store, tableVars, saveReq, tableIdle, columns, isUploading,
                   fetches, timers, uploads, dispatched, inserted, uploadErrors, file,
                   fileName, workerRef, xlsx, delivered, calls, wasReset>>

\* The complete callback of the worker.
WorkerComplete ==
    /\ worker.alive
    /\ worker.phase = "parsing"
    /\ worker.rowsLeft = 0
    /\ worker' = [worker EXCEPT !.phase = "finished"]
    /\ queue' = Append(queue, Message("complete", 0, worker.allFields,
                                      worker.totalRows, ""))
    /\ lastOp' = "workerComplete"
    /\ UNCHANGED <<store, tableVars, saveReq, tableIdle, columns, isUploading,
                   fetches, timers, uploads, dispatched, inserted, uploadErrors, file,
                   fileName, workerRef, xlsx, posted, delivered, calls,
                   retained, wasReset>>

\* The error callback of the worker: PapaParse gives up on the file.
WorkerFails ==
    /\ worker.alive
    /\ worker.phase = "parsing"
    /\ worker' = [worker EXCEPT !.phase = "finished"]
    /\ queue' = Append(queue, Message("error", 0, <<>>, 0, "read failed"))
    /\ lastOp' = "workerFails"
    /\ UNCHANGED <<store, tableVars, saveReq, tableIdle, columns, isUploading,
                   fetches, timers, uploads, dispatched, inserted, uploadErrors, file,
                   fileName, workerRef, xlsx, posted, delivered, calls,
                   retained, wasReset>>

\* An uncaught error in the worker (importScripts, a callback): an error
\* event is queued for worker.onerror, and the worker's event loop goes on.
WorkerErrorEvent ==
    /\ worker.alive
    /\ worker.phase = "parsing"
    /\ \A i \in DOMAIN queue : queue[i].type # "errorEvent"
    /\ queue' = Append(queue, Message("errorEvent", 0, <<>>, 0, "uncaught"))
    /\ lastOp' = "workerErrorEvent"
    /\ UNCHANGED <<store, tableVars, saveReq, tableIdle, columns, isUploading,
                   fetches, timers, uploads, dispatched, inserted, uploadErrors, file,
                   fileName, workerRef, worker, xlsx, posted, delivered, calls,
                   retained, wasReset>>

\* A terminate() that leaves the events already queued in place.
Terminated_KeepsQueue(q) == q

\* worker.terminate(): the events of the worker not yet dispatched are
\* discarded, and it posts no more.
Terminated(q) == <<>>

\* A relay that hands the records over without their field names.
RelayChunk_NoFields(msg) == [n |-> msg.n, fields |-> <<>>]

\* `onChunk({ data, fields, errors })`
RelayChunk(msg) == [n |-> msg.n, fields |-> msg.fields]

\* handleComplete of handleFileUpload with handleParseComplete: the refetch
\* is scheduled with setTimeout.
Completed(totalRows, data) ==
    /\ calls' = [calls EXCEPT !.complete = @ + 1, !.totalRows = totalRows,
                              !.data = data]
    /\ timers' = timers + 1

\* handleError of handleFileUpload.
Failed(message) ==
    /\ calls' = [calls EXCEPT !.error = @ + 1, !.message = message]
    /\ UNCHANGED timers

\* worker.onmessage / worker.onerror of parseCSVFile, for the oldest event.
onmessage ==
    /\ queue # <<>>
    /\ LET msg == Head(queue)
       IN  IF msg.type = "chunk"
           THEN /\ SetPage(handleChunk(Page, RelayChunk(msg)))
                /\ queue' = Tail(queue)
                /\ lastOp' = "chunk"
                /\ UNCHANGED <<worker, calls, timers>>
           ELSE /\ IF msg.type = "complete"
                   THEN /\ Completed(msg.totalRows, 0)
                        /\ lastOp' = "complete"
                   ELSE /\ Failed(IF msg.type = "error" THEN msg.error
                                  ELSE "Worker error: " \o msg.error)
                        /\ lastOp' = "error"
                /\ worker' = [worker EXCEPT !.alive = FALSE]
                /\ queue' = Terminated(Tail(queue))
                /\ UNCHANGED <<columns, isUploading, uploads, dispatched, delivered>>
    /\ UNCHANGED <<store, tableVars, saveReq, tableIdle, fetches, inserted,
                   uploadErrors, file, fileName, workerRef, xlsx, posted,
                   retained, wasReset>>

\* parseExcelFile: `await import('exceljs')` settles; readAsArrayBuffer is
\* started, or the outer catch reports the failure.
ExcelImported(ok) ==
    /\ xlsx = "importing"
    /\ IF ok
       THEN /\ xlsx' = "reading"
            /\ lastOp' = "xlsxImported"
            /\ UNCHANGED <<calls, timers>>
       ELSE /\ xlsx' = "done"
            /\ Failed("import failed")
            /\ lastOp' = "error"
    /\ UNCHANGED <<store, tableVars, saveReq, tableIdle, columns, isUploading,
                   fetches, uploads, dispatched, inserted, uploadErrors, file, fileName,
                   workerRef, worker, queue, posted, delivered, retained,
                   wasReset>>

\* reader.onload up to `await workbook.xlsx.load(...)`, or reader.onerror.
ExcelRead(ok) ==
    /\ xlsx = "reading"
    /\ IF ok
       THEN /\ xlsx' = "loading"
            /\ lastOp' = "xlsxRead"
            /\ UNCHANGED <<calls, timers>>
       ELSE /\ xlsx' = "done"
            /\ Failed("Failed to read Excel file")
            /\ lastOp' = "error"
    /\ UNCHANGED <<store, tableVars, saveReq, tableIdle, columns, isUploading,
                   fetches, uploads, dispatched, inserted, uploadErrors, file, fileName,
                   workerRef, worker, queue, posted, delivered, retained,
                   wasReset>>

\* A chunk test that lets one more row in.
ChunkFull_Late(len) == len > CHUNK_SIZE

\* `currentChunk.length >= CHUNK_SIZE`
ChunkFull(len) == len >= CHUNK_SIZE

\* The locals of reader.onload before the first of `rows` data rows:
\* currentChunk and allData by their lengths, the batches passed to onChunk
\* by their sizes, and the most records currentChunk and allData held
\* together.  The data rows are numbered from 1 in the order eachRow visits
\* them: first is the number of the row at currentChunk[0], and firsts has
\* that number for every batch passed to onChunk.
NoRows(rows) == [rowsLeft |-> rows, currentChunk |-> 0, allData |-> 0,
                 totalRows |-> 0, batches |-> <<>>, held |-> 0,
                 first |-> 0, firsts |-> <<>>]

\* `allData.push(...currentChunk); onChunk(...)`
Emit(st) ==
    [st EXCEPT !.allData = @ + st.currentChunk,
               !.batches = Append(@, st.currentChunk),
               !.firsts = Append(@, st.first),
               !.held = IF st.allData + st.currentChunk > @
                        THEN st.allData + st.currentChunk ELSE @]

\* The callback of worksheet.eachRow pushes row after row until the chunk
\* test holds or the rows end: the number of rows pushed by then.
RowsPushed(rowsLeft) ==
    LET full == {k \in 1..rowsLeft : ChunkFull(k)}
    IN  IF full = {} THEN rowsLeft
        ELSE CHOOSE k \in full : \A j \in full : k <= j

\* The callback of worksheet.eachRow, up to the next batch handed over or
\* the end of the rows.
FillChunk(st) ==
    LET k == RowsPushed(st.rowsLeft)
        pushed == [st EXCEPT !.rowsLeft = @ - k,
                             !.currentChunk = @ + k,
                             !.totalRows = @ + k,
                             !.first = IF st.currentChunk = 0 /\ k > 0
                                       THEN st.totalRows + 1 ELSE @]
    IN  IF ChunkFull(pushed.currentChunk)
        THEN [Emit(pushed) EXCEPT !.currentChunk = 0]
        ELSE pushed

RECURSIVE EachRow(_)
\* worksheet.eachRow over the data rows, one batch after the other.
EachRow(st) ==
    LET filled == FillChunk(st)
    IN  IF filled.rowsLeft = 0 THEN filled ELSE EachRow(filled)

\* The loop without the hand-over of the rows that remain after it.
ExcelRows_NoFlush(rows) == EachRow(NoRows(rows))

\* The loop and `if (currentChunk.length > 0)` after it.
ExcelRows(rows) ==
    LET st == EachRow(NoRows(rows))
    IN  IF st.currentChunk > 0 THEN Emit(st) ELSE st

\* reader.onload after `await workbook.xlsx.load(...)`: every batch and the
\* completion are handed over in one run, or the catch reports the failure.
ExcelLoaded(ok) ==
    /\ xlsx = "loading"
    /\ xlsx' = "done"
    /\ IF ok
       THEN LET st == ExcelRows(file.rows)
                allFields == SetAdd(<<>>, file.header, {})
                chunks == [i \in DOMAIN st.batches |->
                             [n |-> st.batches[i], fields |-> allFields,
                              first |-> st.firsts[i]]]
            IN  /\ SetPage(DeliverAll(Page, chunks))
                /\ Completed(st.totalRows, st.allData)
                /\ retained' = IF st.held > retained THEN st.held
                               ELSE retained
                /\ lastOp' = "complete"
       ELSE /\ Failed("No worksheets found in the Excel file")
            /\ lastOp' = "error"
            /\ UNCHANGED <<columns, isUploading, uploads, dispatched, delivered, retained>>
    /\ UNCHANGED <<store, tableVars, saveReq, tableIdle, fetches, inserted,
                   uploadErrors, file, fileName, workerRef, worker, queue,
                   posted, wasReset>>

\* The POST of batch b is answered and the rest of sendChunkToApi runs.
UploadResponse(b, ok) ==
    /\ b \in uploads
    /\ uploads' = uploads \ {b}
    /\ IF ok
       THEN /\ store' = InsertMany(store, delivered[b].n, delivered[b].fields)
            /\ inserted' = inserted \cup {b}
            /\ lastOp' = "uploadOk"
            /\ UNCHANGED uploadErrors
       ELSE \* toast.error('Error uploading data chunk')
            /\ uploadErrors' = uploadErrors \cup {b}
            /\ lastOp' = "uploadFailed"
            /\ UNCHANGED <<store, inserted>>
    /\ UNCHANGED <<tableVars, saveReq, tableIdle, columns, isUploading,
                   fetches, timers, file, fileName, workerRef, worker, queue,
                   xlsx, posted, delivered, calls, retained, wasReset,
                   dispatched>>

\* The setTimeout callback of handleParseComplete up to
\* `await fetchPatients()`: the GET is in flight.
TimerFires ==
    /\ timers > 0
    /\ timers' = timers - 1
    /\ fetches' = fetches \cup {"refetch"}
    /\ lastOp' = "timer"
    /\ UNCHANGED <<store, tableVars, saveReq, tableIdle, columns, isUploading,
                   uploads, dispatched, inserted, uploadErrors, file, fileName, workerRef,
                   worker, queue, xlsx, posted, delivered, calls, retained,
                   wasReset>>

\* The GET of a fetchPatients call is answered and the rest of the call
\* runs; the table gets the new data prop (its load effect).  The call made
\* by the timer goes on to setIsUploading(false).
FetchResponse(call, ok) ==
    /\ call \in fetches
    /\ fetches' = fetches \ {call}
    /\ IF ok
       THEN LET data == FetchPage(store)
            IN  /\ tableData' = data
                /\ originalData' = JsonCopy(data)
                /\ dirtyRows' = {}
                /\ saveReq' = Detached(saveReq)
                /\ columns' = AllColumns(<<>>, data)
       ELSE \* toast.error('Failed to fetch patients')
            UNCHANGED <<tableVars, saveReq, columns>>
    /\ isUploading' = IF call = "refetch" THEN FALSE ELSE isUploading
    /\ lastOp' = IF call = "refetch"
                 THEN (IF ok THEN "refetched" ELSE "refetchFailed")
                 ELSE (IF ok THEN "mountFetched" ELSE "mountFetchFailed")
    /\ UNCHANGED <<store, tableIdle, timers, uploads, dispatched, inserted, uploadErrors,
                   file, fileName, workerRef, worker, queue, xlsx, posted,
                   delivered, calls, retained, wasReset>>

\* handleReset of FileUpload, with handleReset of Home as its onReset.  The
\* Reset button is rendered while fileName is set.
handleReset ==
    /\ fileName
    /\ IF workerRef
       THEN /\ worker' = [worker EXCEPT !.alive = FALSE]
            /\ queue' = Terminated(queue)
       ELSE UNCHANGED <<worker, queue>>
    /\ workerRef' = FALSE
    /\ fileName' = FALSE
    /\ isUploading' = FALSE
    /\ wasReset' = TRUE
    /\ lastOp' = "reset"
    /\ UNCHANGED <<store, tableVars, saveReq, tableIdle, columns, fetches,
                   timers, uploads, dispatched, inserted, uploadErrors, file, xlsx, posted,
                   delivered, calls, retained>>

\* Handler steps taken so far, at most MaxSteps of them in a behaviour.
Budget == steps < MaxSteps /\ steps' = steps + 1

\* The table on its own: the page around it stands still, and no request
\* is made of an endpoint but by the table.
PageIdle ==
    UNCHANGED <<ingestVars, request, response, sheet, decoded, decodes,
                current, fileUploading, consumer, written>>

Next ==
    \/ \E records \in LoadInputs : Budget /\ PageIdle /\ Load(records)
    \/ \E i \in 1..MaxRows, f \in Fields, v \in Values :
         Budget /\ PageIdle /\ Edit(i, f, v)
    \/ \E i \in {0, Len(tableData) + 1}, f \in Fields, v \in Values :
         Budget /\ PageIdle /\ updateDataOutOfRange(i, f, v)
    \/ Budget /\ PageIdle /\ handleSaveChanges
    \/ \E ok \in BOOLEAN : Budget /\ PageIdle /\ SaveResponse(ok)
    \/ Budget /\ PageIdle /\ handleRevertChanges
    \/ \E sel \in SUBSET (1..MaxRows) :
         Budget /\ PageIdle /\ handleDeleteSelected(sel)
    \/ \E req \in delReqs, fault \in BOOLEAN :
         Budget /\ PageIdle /\ DeleteResponse(req, fault)
    \/ \E outcome \in RefetchOutcomes :
         Budget /\ PageIdle /\ DeleteRefresh(outcome)

Spec == Init /\ [][Next]_vars

\* The page with a file given to it; the handlers of the table are left out.
NextIngest ==
    \/ \E f \in Files : handleFileUpload(f)
    \/ \E n \in 0..MaxCsvRows : WorkerChunk(n)
    \/ WorkerComplete
    \/ WorkerFails
    \/ WorkerErrorEvent
    \/ onmessage
    \/ \E ok \in BOOLEAN : ExcelImported(ok)
    \/ \E ok \in BOOLEAN : ExcelRead(ok)
    \/ \E ok \in BOOLEAN : ExcelLoaded(ok)
    \/ \E b \in uploads, ok \in BOOLEAN : UploadResponse(b, ok)
    \/ TimerFires
    \/ \E call \in fetches, ok \in BOOLEAN : FetchResponse(call, ok)
    \/ handleReset

SpecIngest == Init /\ [][NextIngest]_vars

\* The endpoints that take identifiers, requested by any client.
NextApi ==
    \/ \E id \in IdInputs \cup {NoId}, fault \in Faults : ApiGet(id, fault)
    \/ \E id \in IdInputs \cup {NoId}, bodyId \in IdInputs \cup {NoId},
          cells \in Cells, sent \in SentCreatedAt, fault \in Faults :
         ApiPut(id, bodyId, cells, sent, fault)
    \/ \E id \in IdInputs \cup {NoId}, fault \in Faults : ApiDelete(id, fault)
    \/ \E body \in Bodies, sent \in SentCreatedAt, fault \in Faults :
         ApiPutBulk(body, sent, fault)

SpecApi == Init /\ [][NextApi]_vars

\* The spreadsheet decoder given a worksheet.
NextSheet == \E header \in HeaderRows, row \in DataRows : ReadSheet(header, row)

SpecSheet == Init /\ [][NextSheet]_vars

\* The upload component given one file after another.
NextUploads ==
    \/ \E kind \in {"csv", "xlsx"}, batches \in 0..MaxBatches :
         handleFileChange(kind, batches)
    \/ \E kind \in {"csv", "xlsx"}, batches \in 0..MaxBatches :
         handleDrop(kind, batches)
    \/ \E d \in DOMAIN decodes : DecodeChunk(d)
    \/ \E d \in DOMAIN decodes, ok \in BOOLEAN : DecodeEnds(d, ok)
    \/ ResetDecodes

SpecUploads == Init /\ [][NextUploads]_vars

\* The steps the runtime takes by itself once they are possible: the worker
\* runs its script, queued events are dispatched, the file reader and the
\* ExcelJS promises settle, every fetch is answered or rejected, and a timer
\* fires.  Giving a file, pressing Reset and an uncaught error in the worker
\* are not among them.
Progress ==
    \/ \E n \in 0..MaxCsvRows : WorkerChunk(n)
    \/ WorkerComplete
    \/ WorkerFails
    \/ onmessage
    \/ \E ok \in BOOLEAN : ExcelImported(ok)
    \/ \E ok \in BOOLEAN : ExcelRead(ok)
    \/ \E ok \in BOOLEAN : ExcelLoaded(ok)
    \/ \E b \in uploads, ok \in BOOLEAN : UploadResponse(b, ok)
    \/ TimerFires
    \/ \E call \in fetches, ok \in BOOLEAN : FetchResponse(call, ok)

\* The page with a file given to it, under a runtime that keeps going.
SpecIngestFair == Init /\ [][NextIngest]_vars /\ WF_vars(Progress)
(***************************************************************************)
(* Properties of the row reconciliation store.                             *)
(***************************************************************************)

\* The steps that are a call of handleSaveChanges / of handleDeleteSelected.
SaveCallOps == {"saveSent", "saveMissingId", "saveNoChanges"}
DeleteCallOps == {"deleteSent", "deleteMissingId"}

\* Equality of two tables on the fields that are not reserved.
SameCells(a, b) ==
    /\ Len(a) = Len(b)
    /\ \A i \in DOMAIN a : a[i].cells = b[i].cells

\* C1: in every reachable state the dirty set is empty if and only if the
\* working copy equals the original snapshot on all non-reserved fields.
C1_DirtyIffDiffers == (dirtyRows = {}) <=> SameCells(tableData, originalData)

C3_RevertRestoresSnapshot ==
    [][/\ lastOp' = "revert" =>
            /\ tableData' = originalData
            /\ originalData' = originalData
            /\ dirtyRows' = {}
       /\ originalData' # originalData =>
            lastOp' \in {"load", "saveOk", "deleteOk"}]_vars

\* C3 witness: a revert has restored a table that holds rows.
C3_Witness ==
    /\ lastOp = "revert"
    /\ tableData # <<>>
    /\ tableData = originalData
    /\ dirtyRows = {}

\* C4: a save call while a dirty row has no identifier sends no request and
\* leaves the working copy, the dirty set and the original snapshot as they
\* were.
C4_SaveMissingIdentifier ==
    [][(/\ lastOp' \in SaveCallOps
        /\ \E i \in dirtyRows : tableData[i].id = NoId)
       => /\ lastOp' = "saveMissingId"
          /\ UNCHANGED <<tableData, dirtyRows, originalData, saveReq, store,
                         isSaving>>]_vars

\* C4 witness: a save was refused with a dirty row without identifier next to
\* a dirty row that has one, and nothing is in flight.
C4_Witness ==
    /\ lastOp = "saveMissingId"
    /\ ~saveReq.active
    /\ \E i, j \in dirtyRows :
         tableData[i].id = NoId /\ tableData[j].id # NoId

\* C5: when a save request succeeds the original snapshot is a copy of the
\* working copy and the dirty set is empty.
C5_SaveSuccessSnapshot ==
    lastOp = "saveOk" => (originalData = tableData /\ dirtyRows = {})

\* C6: when a save request fails the working copy, the dirty set and the
\* original snapshot are unchanged and the save can be called again.
C6_SaveFailureKeepsState ==
    [][lastOp' = "saveFailed" =>
         /\ UNCHANGED <<tableData, dirtyRows, originalData>>
         /\ ~isSaving'
         /\ ~saveReq'.active]_vars

\* C6 witness: a save has failed and the rows are still dirty.
C6_Witness ==
    /\ lastOp = "saveFailed"
    /\ dirtyRows # {}
    /\ ~SameCells(tableData, originalData)

\* C7: a save call with dirty rows sends one request; its success empties the
\* dirty set; and a save call with an empty dirty set sends none and changes
\* no state.
C7_SecondSaveNoop ==
    [][/\ lastOp' = "saveSent" =>
            /\ ~saveReq.active
            /\ saveReq'.active
            /\ DOMAIN saveReq'.body = dirtyRows
            /\ dirtyRows # {}
       /\ lastOp' = "saveOk" => dirtyRows' = {}
       /\ (lastOp' \in SaveCallOps /\ dirtyRows = {}) =>
            /\ lastOp' = "saveNoChanges"
            /\ UNCHANGED <<tableData, dirtyRows, originalData, saveReq, store,
                           isSaving>>]_vars

\* C7 witness: a save was called with nothing dirty, after a save that
\* reached the collection.
C7_Witness ==
    /\ lastOp = "saveNoChanges"
    /\ dirtyRows = {}
    /\ ~saveReq.active
    /\ \E k \in DOMAIN store : \E f \in Fields : store[k].cells[f] = "new"

\* C8: while a save request is outstanding the Saving sub-state is set and no
\* save starts; while a deleteRows handler is suspended the Deleting sub-state
\* is set and no deleteRows starts.
C8_SingleInFlight ==
    [][/\ saveReq.active => (isSaving /\ lastOp' \notin SaveCallOps)
       /\ delPhase # "idle" => (isDeleting /\ lastOp' \notin DeleteCallOps)
       /\ saveReq'.active => isSaving'
       /\ delPhase' # "idle" => isDeleting']_vars

\* C8 witness: a save and a deleteRows are outstanding together.
C8_Witness ==
    /\ saveReq.active
    /\ isSaving
    /\ delPhase = "deleting"
    /\ isDeleting

\* C9: when deleteRows completes, every targeted row is absent from the
\* working copy and from the original snapshot and the dirty set is empty, in
\* the same state; and no step of a deleteRows adds a row to the dirty set.
C9_DeleteRemovesEverywhere ==
    [][/\ lastOp' = "deleteOk" =>
            /\ \A id \in delTargets :
                 id \notin IdsOf(tableData') /\ id \notin IdsOf(originalData')
            /\ dirtyRows' = {}
       /\ lastOp' \in DeleteCallOps \cup
                      {"deleteRowOk", "deleteFailed", "deleteIgnored",
                       "deleteOk", "deleteRefetchFailed"}
            => dirtyRows' \subseteq dirtyRows]_vars

\* C9 witness: a deleteRows has completed and left other rows in the table.
C9_Witness ==
    /\ lastOp = "deleteOk"
    /\ delTargets # {}
    /\ delDone = delTargets
    /\ tableData # <<>>

\* C10: when a deleteRows ends with some deletes failed, the rows whose
\* delete succeeded are gone from the working copy and the original snapshot.
C10_PartialDelete ==
    lastOp = "deleteFailed" =>
        \A id \in delDone :
            id \notin IdsOf(tableData) /\ id \notin IdsOf(originalData)

\* C11: a deleteRows call that meets a selected row without identifier fails
\* and leaves the working copy, the original snapshot and the dirty set as
\* they were; a call that goes on to await its deletes sent none for a row
\* without identifier.
C11_DeleteMissingIdentifier ==
    [][/\ lastOp' = "deleteMissingId" =>
            /\ UNCHANGED <<tableData, originalData, dirtyRows>>
            /\ \E r \in DOMAIN tableData : tableData[r].id = NoId
            /\ ~isDeleting'
            /\ delPhase' = delPhase
       /\ lastOp' = "deleteSent" =>
            \A req \in delReqs' \ delReqs : req.id # NoId]_vars

\* C11 witness: a deleteRows was refused for a row without identifier while
\* the table held dirty rows.
C11_Witness ==
    /\ lastOp = "deleteMissingId"
    /\ dirtyRows # {}
    /\ ~SameCells(tableData, originalData)
    /\ \E r \in DOMAIN tableData : tableData[r].id = NoId

\* C12: a load, from whatever state, makes the working copy the loaded
\* records and the original snapshot a copy of them, and empties the dirty
\* set.
C12_LoadResets ==
    [][lastOp' = "load" =>
         /\ tableData' \in LoadInputs
         /\ originalData' = tableData'
         /\ dirtyRows' = {}]_vars

\* C12 witness: a load has replaced a table that had dirty rows and a save in
\* flight.
C12_Witness ==
    /\ lastOp = "load"
    /\ saveReq.active
    /\ dirtyRows = {}
    /\ tableData # <<>>
    /\ \E i \in DOMAIN saveReq.frozen :
         saveReq.frozen[i].cells # originalData[i].cells

(***************************************************************************)
(* Properties of the ingestion pipeline.                                   *)
(***************************************************************************)

\* The batches but the last have b records and the last has 1..b of them.
FixedSize(batches, b) ==
    \A i \in DOMAIN batches :
        IF i < Len(batches) THEN batches[i].n = b
        ELSE batches[i].n \in 1..b

RECURSIVE FieldsOf(_)
\* The field names of a sequence of batches, one after the other.
FieldsOf(batches) ==
    IF batches = <<>> THEN <<>>
    ELSE Head(batches).fields \o FieldsOf(Tail(batches))

Names(seq) == {seq[i] : i \in DOMAIN seq}

\* Where a name comes first in a sequence that holds it.
FirstAt(seq, name) ==
    CHOOSE i \in DOMAIN seq :
        seq[i] = name /\ \A j \in DOMAIN seq : seq[j] = name => i <= j

\* The batches handed over by the step at hand.
NewBatches == SubSeq(delivered', Len(delivered) + 1, Len(delivered'))

\* C14 as claimed: once batches were handed over, the columns are the field
\* names of the batches so far without the reserved ones, in the order in
\* which they came first.
C14_ColumnsAreBatchUnion ==
    [][delivered' # delivered =>
         columns' = SetAdd(<<>>, FieldsOf(delivered'), Reserved)]_vars

\* C14 as amended: handing over a batch keeps the columns there were, in
\* their places, and appends the field names of the batch that are neither
\* reserved nor there already, in the order in which they come first.
C14_ColumnsAppendOnly ==
    [][delivered' # delivered =>
         LET fields == FieldsOf(NewBatches)
             added == (Len(columns) + 1)..Len(columns')
         IN  /\ Len(columns) <= Len(columns')
             /\ SubSeq(columns', 1, Len(columns)) = columns
             /\ Names(columns') = Names(columns) \cup (Names(fields) \ Reserved)
             /\ \A p, q \in added :
                  p < q => FirstAt(fields, columns'[p])
                             < FirstAt(fields, columns'[q])]_vars

\* C14 witness: a batch was handed over to a page that showed a column the
\* file does not have, and a column of the file was appended after it.
C14_Witness ==
    /\ lastOp = "chunk"
    /\ \E i, j \in DOMAIN columns :
         /\ i < j
         /\ columns[i] \notin Names(file.header)
         /\ columns[j] \in Names(file.header)
    /\ Names(file.header) \cap Reserved # {}

\* C15: when the relay of the delimited decoder calls onComplete, it has
\* called onChunk once for every chunk message of the worker, in their order
\* and with their records and fields, it calls onComplete that one time,
\* with the totalRows of the worker, and it has not called onError.
C15_RelayFaithful ==
    (file.kind = "csv" /\ calls.complete > 0) =>
        /\ delivered = [i \in DOMAIN posted |->
                          [n |-> posted[i].n, fields |-> posted[i].fields]]
        /\ calls.complete = 1
        /\ calls.error = 0
        /\ calls.totalRows = worker.totalRows
        /\ calls.data = 0

\* C15 witness: the relay has completed after two chunk messages with records.
C15_Witness ==
    /\ file.kind = "csv"
    /\ calls.complete = 1
    /\ Len(posted) >= 2
    /\ \A i \in DOMAIN posted : posted[i].n > 0
    /\ lastOp = "complete"

\* C16: a parse calls at most one of onComplete and onError, at most once;
\* after that call it hands over no batch; and an error message of the
\* worker is the message of the Error that onError gets.
C16_OneTerminalCall ==
    [][/\ calls'.complete + calls'.error <= 1
       /\ calls.complete + calls.error > 0 =>
            (delivered' = delivered /\ calls' = calls)
       /\ (calls'.error > calls.error /\ queue # <<>>
           /\ Head(queue).type = "error") =>
            calls'.message = Head(queue).error]_vars

\* C16 witness: onError got the error message of the worker after a batch
\* was handed over.
C16_Witness ==
    /\ lastOp = "error"
    /\ calls.error = 1
    /\ calls.complete = 0
    /\ calls.message = "read failed"
    /\ delivered # <<>>

\* The records of the batches whose upload was answered ok.
InsertedRows ==
    SumRows([i \in DOMAIN delivered |->
               IF i \in inserted THEN delivered[i] ELSE [n |-> 0]])

\* C17: every batch with records that was handed over is uploaded, whatever
\* became of the uploads before it: its upload is in flight, has failed and
\* was reported, or has succeeded, and the records of every upload that
\* succeeded are in the collection.
C17_UploadsIndependent ==
    /\ \A b \in DOMAIN delivered :
         delivered[b].n > 0 => b \in uploads \cup inserted \cup uploadErrors
    /\ inserted \cap uploadErrors = {}
    /\ uploads \cap (inserted \cup uploadErrors) = {}
    /\ Len(store) = Len(InitialStore) + InsertedRows

\* C17 witness: the upload of a batch has succeeded after the upload of an
\* earlier batch had failed.
C17_Witness ==
    /\ lastOp = "uploadOk"
    /\ \E i \in uploadErrors, j \in inserted : i < j

\* C18: once the upload component was reset, no batch and no completion is
\* handed over, with either decoder.
C18_ResetStopsDelivery ==
    [][wasReset =>
         /\ delivered' = delivered
         /\ calls'.complete = calls.complete]_vars

\* C19: when the refetch that follows a decode reads the collection, no
\* upload of that decode is still in flight.
C19_RefetchAfterUploads ==
    lastOp = "refetched" => uploads = {}

\* C20: a decoder holds at most one batch of records at a time, and the
\* result it completes with carries no records.
C20_BoundedRetention ==
    /\ retained <= CHUNK_SIZE
    /\ calls.data = 0

(***************************************************************************)
(* Further properties of the row reconciliation store.                     *)
(***************************************************************************)

\* C22: an edit with a row index outside the working copy fails and leaves
\* the working copy, the dirty set and the original snapshot as they were.
C22_InvalidIndexChangesNothing ==
    [][lastOp' = "editInvalidIndex" =>
         UNCHANGED <<tableData, dirtyRows, originalData>>]_vars

\* C22 witness: an edit with an invalid index was refused on a table that
\* holds rows, one of them dirty.
C22_Witness ==
    /\ lastOp = "editInvalidIndex"
    /\ tableData # <<>>
    /\ dirtyRows # {}
    /\ dirtyRows \subseteq DOMAIN tableData

\* The rows and fields edited while the save in flight was awaited: their
\* working value is not the value that was sent.
EditedInFlight ==
    {<<i, f>> \in (DOMAIN saveReq.body) \X Fields :
        tableData[i].cells[f] # saveReq.body[i].cells[f]}

\* C23: when a save succeeds, a row edited while the request was in flight
\* (its value not part of the request) is still in the dirty set and the
\* original snapshot does not hold the edited value.
C23_EditInFlightKept ==
    [][(lastOp' = "saveOk" /\ saveReq.live) =>
         \A e \in EditedInFlight :
            /\ e[1] \in dirtyRows'
            /\ originalData'[e[1]].cells[e[2]] # tableData[e[1]].cells[e[2]]]_vars

\* C25: a deleteRows call on a selection that holds a row without identifier
\* sends no DELETE request.
C25_NoDeleteDispatched ==
    [][lastOp' = "deleteMissingId" => delReqs' = delReqs]_vars

\* C29: when a deleteRows completes, every persisted row that was not
\* targeted is still in the working copy with the values it had, and is
\* dirty exactly when it was dirty before.
C29_DeleteKeepsOtherRows ==
    [][lastOp' = "deleteOk" =>
         \A i \in DOMAIN tableData :
            tableData[i].id \notin delTargets \cup {NoId} =>
               \E j \in DOMAIN tableData' :
                  /\ tableData'[j] = tableData[i]
                  /\ j \in dirtyRows' <=> i \in dirtyRows]_vars

\* C30: a save call with a non-empty dirty set, every dirty row having an
\* identifier, sends one request while none was in flight; the request has
\* an entry for each dirty row and for no other row, and each entry holds the
\* working values of its row.  No other step sends a save request.
C30_SaveSendsDirtyRows ==
    [][/\ (/\ lastOp' \in SaveCallOps
           /\ dirtyRows # {}
           /\ \A i \in dirtyRows : tableData[i].id # NoId)
          => /\ lastOp' = "saveSent"
             /\ ~saveReq.active
             /\ saveReq'.active
             /\ DOMAIN saveReq'.body = dirtyRows
             /\ \A i \in dirtyRows : saveReq'.body[i] = tableData[i]
       /\ (saveReq'.active /\ saveReq'.body # saveReq.body)
          => lastOp' = "saveSent"]_vars

\* C30 witness: a save was sent for one edited row of a table in which
\* another row is not dirty.
C30_Witness ==
    /\ lastOp = "saveSent"
    /\ saveReq.active
    /\ DOMAIN saveReq.body = dirtyRows
    /\ dirtyRows # {}
    /\ dirtyRows # DOMAIN tableData
    /\ \E i \in dirtyRows : \E f \in Fields :
         /\ saveReq.body[i].cells[f] = "new"
         /\ tableData[i].cells[f] = "new"

(***************************************************************************)
(* Further properties of the ingestion pipeline.                           *)
(***************************************************************************)

\* C26: the refetch that follows an ingestion puts every record of the
\* collection in the working copy.
C26_RefetchLoadsAll ==
    lastOp = "refetched" => Len(tableData) = Len(store)

\* C27: whenever the page is in its uploading state (a batch was handed to
\* it), it eventually leaves that state.
C27_UploadingEnds == isUploading ~> ~isUploading

(***************************************************************************)
(* Properties of the persistence endpoints.                                *)
(***************************************************************************)

\* C21: an endpoint that takes identifiers answers a malformed identifier
\* with a 4xx status when nothing else is wrong, and does not answer "invalid
\* identifier" when the identifiers were well formed and the collection
\* operation failed.
C21_IdentifierErrors ==
    /\ (request.malformed /\ request.fault = "none")
          => response.status \in 400..499
    /\ (/\ request.endpoint # "none"
        /\ ~request.malformed /\ ~request.missing /\ ~request.mismatch
        /\ request.fault = "op")
          => response.error \notin {"Invalid patient ID",
                                    "Invalid patient ID format"}

(***************************************************************************)
(* Properties of the spreadsheet row mapping.                              *)
(***************************************************************************)

\* The header width: the last column of row 1 that has a cell.
HeaderWidth(header) ==
    IF eachCell(header) = {} THEN 0
    ELSE CHOOSE c \in eachCell(header) : \A d \in eachCell(header) : d <= c

\* The name column c is to have: the text of its header cell, or Column{c}
\* when that cell is absent or empty.
ColumnName(header, c) ==
    IF header[c].type = "Null" \/ header[c].value = ""
    THEN "Column" \o ToString(c)
    ELSE header[c].value

\* C24: in an emitted record, the value of every data cell in a column within
\* the header width is stored under the name of that column, whether or not
\* header cells to its left are blank.
C24_PositionalColumns ==
    (lastOp = "sheetRow" /\ decoded.emitted) =>
        \A c \in eachCell(sheet.row) :
            c <= HeaderWidth(sheet.header) =>
                /\ ColumnName(sheet.header, c) \in DOMAIN decoded.rowData
                /\ decoded.rowData[ColumnName(sheet.header, c)]
                      = sheet.row[c].value

(***************************************************************************)
(* Properties of the upload component given several files.                 *)
(***************************************************************************)

\* C28: at most one decode runs at a time; the batches of a decode reach the
\* consumer with no batch of another decode between them; and a running
\* worker is the one workerRef refers to.
C28_OneDecodeAtATime ==
    /\ Cardinality({d \in DOMAIN decodes : Running(d)}) <= 1
    /\ \A i, j, k \in DOMAIN consumer :
          (i < j /\ j < k /\ consumer[i] = consumer[k])
             => consumer[j] = consumer[i]
    /\ \A d \in DOMAIN decodes :
          (Running(d) /\ decodes[d].kind = "csv") => current = d

(***************************************************************************)
(* Further properties of the persistence endpoints.                        *)
(***************************************************************************)

\* C31: the $set document of a bulk update that was applied has no
\* identifier and no createdAt, and has an updatedAt made by the server.
C31_UpdateKeepsCreatedAt ==
    (/\ lastOp = "api"
     /\ request.endpoint = "PUT bulk"
     /\ response.status = 200)
    => /\ "id" \notin DOMAIN written
       /\ "createdAt" \notin DOMAIN written
       /\ "updatedAt" \in DOMAIN written
       /\ written.updatedAt = "server"

\* C32: a bulk update with an entry that has no identifier is not answered
\* ok, hands no update to the collection and changes no record, wherever
\* that entry stands in the body.
C32_BulkMissingIdRejected ==
    [][(/\ lastOp' = "api"
        /\ request'.endpoint = "PUT bulk"
        /\ request'.missing)
       => /\ store' = store
          /\ written' = NoWritten
          /\ response'.status \notin 200..299]_vars

\* C32 witness: a bulk update was refused whose entry without identifier
\* comes after an entry for a record of the collection, and the collection
\* is as it was found.
C32_Witness ==
    /\ lastOp = "api"
    /\ request.endpoint = "PUT bulk"
    /\ request.fault = "none"
    /\ ~request.malformed
    /\ request.missing
    /\ request.validFirst
    /\ response.status = 500
    /\ store = InitialStore

\* C33: an edit whose new value equals the current working value of the cell
\* leaves the working copy and the dirty set as they were.
C33_SameValueChangesNothing ==
    [][lastOp' = "editSame" =>
         /\ tableData' = tableData
         /\ dirtyRows' = dirtyRows]_vars

\* A same-value edit was made on a row that is not dirty.
C33_Witness ==
    /\ lastOp = "editSame"
    /\ tableData # <<>>
    /\ \E i \in DOMAIN tableData : i \notin dirtyRows

\* The names given to the columns of the header row.
HeaderNames(header) == {ColumnName(header, c) : c \in eachCell(header)}

\* C34: the cells of a data row beyond the header width are dropped without
\* error: the field names of an emitted record are header names, none of its
\* values comes from a cell beyond the header width, and the error list of
\* its batch is empty.
C34_ExtraCellsDropped ==
    (lastOp = "sheetRow" /\ decoded.emitted) =>
        /\ DOMAIN decoded.rowData \subseteq HeaderNames(sheet.header)
        /\ \A name \in DOMAIN decoded.rowData :
              \E c \in eachCell(sheet.row) :
                 /\ c <= HeaderWidth(sheet.header)
                 /\ decoded.rowData[name] = sheet.row[c].value
        /\ decoded.errors = <<>>

\* A record was emitted for a row that has a cell within the header width
\* and a cell beyond it.
C34_Witness ==
    /\ lastOp = "sheetRow"
    /\ decoded.emitted
    /\ DOMAIN decoded.rowData # {}
    /\ \E c \in eachCell(sheet.row) : c > HeaderWidth(sheet.header)

\* C35: no emitted record is empty: a record handed over for a data row has
\* at least one field.
C35_NoEmptyRecord ==
    (lastOp = "sheetRow" /\ decoded.emitted) => DOMAIN decoded.rowData # {}

(***************************************************************************)
(* Further properties of the ingestion pipeline.                           *)
(***************************************************************************)

\* The batches hold the data rows 1, 2, ... in file order: each batch starts
\* at the row after the last row of the batch before it.
InRowOrder(batches) ==
    \A i \in DOMAIN batches :
        /\ batches[i].n > 0
        /\ batches[i].first = SumRows(SubSeq(batches, 1, i - 1)) + 1

\* C36: the batches of the spreadsheet decoder are handed over in row order
\* and all of them before the completion: put one after the other they are
\* the data rows in file order, the rows that remain after the last full
\* batch are handed over too, and once onComplete was called every data row
\* has been handed over and no batch follows.
C36_BatchesInRowOrder ==
    [][file'.kind = "xlsx" =>
         /\ InRowOrder(delivered')
         /\ calls'.complete > 0 =>
               /\ SumRows(delivered') = file'.rows
               /\ file'.rows % CHUNK_SIZE # 0 =>
                     delivered'[Len(delivered')].n = file'.rows % CHUNK_SIZE
         /\ calls.complete > 0 => delivered' = delivered]_vars

\* A spreadsheet decode has completed with a full batch and a shorter last
\* one, handed over in that order.
C36_Witness ==
    /\ file.kind = "xlsx"
    /\ lastOp = "complete"
    /\ calls.complete = 1
    /\ Len(delivered) >= 2
    /\ delivered[Len(delivered)].first = CHUNK_SIZE * (Len(delivered) - 1) + 1
    /\ delivered[Len(delivered)].n < CHUNK_SIZE

\* The numbers of the batches that hold records, ascending.
NonEmptyBatches(batches) ==
    SelectSeq([i \in DOMAIN batches |-> i], LAMBDA i : batches[i].n > 0)

\* C37: the insert requests are sent in the order the batches were handed
\* over: one request for every batch that holds records, in ascending batch
\* number, and no request for a batch without records.
C37_DispatchInEmissionOrder ==
    dispatched = NonEmptyBatches(delivered)

\* Requests were sent for two batches, the earlier batch first, and one of
\* the requests has been answered.
C37_Witness ==
    /\ Len(dispatched) >= 2
    /\ dispatched[1] < dispatched[2]
    /\ inserted \cup uploadErrors # {}

\* C38: every record of the working table has an identifier, in every state
\* of the page with its upload component, so that save and deleteRows never
\* meet a row without one.
C38_RowsHaveIdentifier ==
    \A i \in DOMAIN tableData : tableData[i].id # NoId

====
